---- MODULE Spec2Model ----
(***************************************************************************)
(* A model of gusteau chapter1.cpp: main() creates the root graphics       *)
(* context, the UI context and the application context, launches two       *)
(* threads that run StateEngine and RenderEngine, runs UIEngine on the     *)
(* main thread and joins the threads.  The model follows the lifetime of   *)
(* the context objects and their Detail pointers, the reference counts of  *)
(* the two shared_ptr-owned objects, both join_now fields (the one of      *)
(* ApplicationContextBase and the one ApplicationContext declares again),  *)
(* and the unwinding of main when an exception is thrown.                  *)
(***************************************************************************)
EXTENDS Naturals, Sequences, FiniteSets

VARIABLES
    main_pc,          \* position of main()
    constructed,      \* the locals of main that are constructed
    unwind,           \* locals still to be destroyed by stack unwinding
    jobs,             \* std::vector<std::thread> jobs
    thread_pc,        \* position of each launched thread
    ui_pc,            \* position inside UIEngine
    frames,           \* iterations of UIEngine's loop so far
    base_join_now,    \* ApplicationContextBase::join_now
    appctx_join_now,  \* ApplicationContext::join_now (hides the base member)
    ui,               \* ApplicationContextBase::ui
    ctx,              \* lifetime of each context object
    m_,               \* the Detail* m_ of each context object
    news,             \* number of Detail objects created per context
    deletes,          \* number of Detail objects deleted per context
    refs,             \* use counts of the shared_ptr control blocks
    quit_clicked,     \* the Quit button has reported a click in some frame
    thrown,           \* where an exception was thrown, "none" if nowhere
    cerr              \* main's handler has written its message to stderr

vars == <<main_pc, constructed, unwind, jobs, thread_pc, ui_pc, frames,
          base_join_now, appctx_join_now, ui, ctx, m_, news, deletes, refs,
          quit_clicked, thrown, cerr>>

\* Number of UIEngine loop iterations explored.
MaxFrames == 3

\* The context classes that hold a Detail* m_.
Contexts == {"GraphicsContext", "UIContext", "StateContext", "RenderContext"}

\* Every object whose lifetime is followed.
Objects == Contexts \cup {"ApplicationContext"}

\* The two threads main launches: 1 runs StateEngine, 2 runs RenderEngine.
Threads == {1, 2}

\* The part of the state the constructors, destructors and shared_ptr
\* operations act on, as one value.
Heap == [ctx |-> ctx, m_ |-> m_, news |-> news, deletes |-> deletes,
         refs |-> refs, ui |-> ui]

SetHeap(h) ==
    /\ ctx' = h.ctx
    /\ m_' = h.m_
    /\ news' = h.news
    /\ deletes' = h.deletes
    /\ refs' = h.refs
    /\ ui' = h.ui

\* A context constructor that leaves m_ null, creating no Detail.
ConstructContextLazy(h, c) ==
    [h EXCEPT !.ctx[c] = "alive", !.m_[c] = "null"]

\* StateContext(), RenderContext(), GraphicsContext(), UIContext(...):
\* each initialises m_ with new Detail.
ConstructContext(h, c) ==
    [h EXCEPT !.ctx[c] = "alive", !.m_[c] = "detail", !.news[c] = @ + 1]

\* ~StateContext(), ~RenderContext(), ~GraphicsContext(), ~UIContext():
\* delete m_ (a no-op on a null pointer).
DestroyContext(h, c) ==
    [h EXCEPT !.ctx[c] = "destroyed",
              !.m_[c] = IF h.m_[c] = "null" THEN "null" ELSE "dangling",
              !.deletes[c] = IF h.m_[c] = "null" THEN @ ELSE @ + 1]

\* A shared_ptr<UIContext> is destroyed or reset: the last owner deletes
\* the UIContext.
ReleaseUI(h) ==
    IF h.refs["UIContext"] = 1
    THEN [DestroyContext(h, "UIContext") EXCEPT !.refs["UIContext"] = 0]
    ELSE [h EXCEPT !.refs["UIContext"] = @ - 1]

\* ~ApplicationContext(): the members render and state are destroyed in
\* reverse order of declaration, then the base class member ui.
DestroyApplicationContext(h) ==
    LET h1 == DestroyContext(h, "RenderContext")
        h2 == DestroyContext(h1, "StateContext")
        h3 == [h2 EXCEPT !.ctx["ApplicationContext"] = "destroyed",
                         !.ui = "null"]
    IN  IF h.ui = "null" THEN h3 ELSE ReleaseUI(h3)

\* A shared_ptr<ApplicationContextBase> is destroyed: the last owner
\* deletes the ApplicationContext.
ReleaseApp(h) ==
    IF h.refs["ApplicationContext"] = 1
    THEN [DestroyApplicationContext(h) EXCEPT !.refs["ApplicationContext"] = 0]
    ELSE [h EXCEPT !.refs["ApplicationContext"] = @ - 1]

\* A shared_ptr<ApplicationContextBase> is copied.
AcquireApp(h) ==
    [h EXCEPT !.refs["ApplicationContext"] = @ + 1]

Init ==
    /\ main_pc = "CreateRootGraphicsContext"
    /\ constructed = {}
    /\ unwind = <<>>
    /\ jobs = <<>>
    /\ thread_pc = [t \in Threads |-> "unstarted"]
    /\ ui_pc = "none"
    /\ frames = 0
    /\ base_join_now = FALSE
    /\ appctx_join_now = FALSE
    /\ ui = "null"
    /\ ctx = [c \in Objects |-> "none"]
    /\ m_ = [c \in Contexts |-> "null"]
    /\ news = [c \in Contexts |-> 0]
    /\ deletes = [c \in Contexts |-> 0]
    /\ refs = [c \in {"ApplicationContext", "UIContext"} |-> 0]
    /\ quit_clicked = FALSE
    /\ thrown = "none"
    /\ cerr = FALSE

\* The process has neither returned from main nor called std::terminate.
ProcessRunning == main_pc \notin {"return0", "return1", "terminated"}

\* The locals of main with jobs declared ahead of the contexts.
DeclOrderJobsFirst ==
    <<"jobs", "root_graphics_context", "ui_context", "app_context">>

\* The locals of main in the order of their declarations.
DeclOrder ==
    <<"root_graphics_context", "ui_context", "app_context", "jobs">>

Reverse(s) == [i \in 1..Len(s) |-> s[Len(s) + 1 - i]]

\* Locals are destroyed in reverse order of declaration, those that were
\* constructed only.
UnwindOrder(S) ==
    LET InS(x) == x \in S
    IN  SelectSeq(Reverse(DeclOrder), InS)

\* The destructor of one local of main that owns a context.
DestroyLocal(h, x) ==
    CASE x = "app_context" -> ReleaseApp(h)
      [] x = "ui_context" -> ReleaseUI(h)
      [] x = "root_graphics_context" -> DestroyContext(h, "GraphicsContext")
      [] OTHER -> h

\* An exception leaves main's body: the function-try-block unwinds the
\* locals before the handler runs.
Throw(where, h) ==
    /\ main_pc' = "unwind"
    /\ unwind' = UnwindOrder(constructed)
    /\ thrown' = where
    /\ SetHeap(h)

\* main, line 207: the GraphicsContext base is constructed, then the
\* GLFWGraphicsContext constructor throws if glfwInit fails, which destroys
\* the base again.
CreateRootGraphicsContext ==
    /\ main_pc = "CreateRootGraphicsContext"
    /\ \E glfwInit \in BOOLEAN :
         LET h == ConstructContext(Heap, "GraphicsContext")
         IN  IF glfwInit
             THEN /\ SetHeap(h)
                  /\ constructed' = constructed \cup {"root_graphics_context"}
                  /\ main_pc' = "CreateUIContext"
                  /\ UNCHANGED <<unwind, thrown>>
             ELSE /\ Throw("CreateRootGraphicsContext",
                           DestroyContext(h, "GraphicsContext"))
                  /\ UNCHANGED constructed
    /\ UNCHANGED <<jobs, thread_pc, ui_pc, frames, base_join_now,
                   appctx_join_now, quit_clicked, cerr>>

\* main, line 208: make_unique<GusteauChapter1UI> constructs the UIContext,
\* whose constructor creates its Detail; the allocation may fail.
CreateUIContext ==
    /\ main_pc = "CreateUIContext"
    /\ \E allocated \in BOOLEAN :
         IF allocated
         THEN /\ SetHeap([ConstructContext(Heap, "UIContext")
                             EXCEPT !.refs["UIContext"] = 1])
              /\ constructed' = constructed \cup {"ui_context"}
              /\ main_pc' = "CreateApplicationContext"
              /\ UNCHANGED <<unwind, thrown>>
         ELSE /\ Throw("CreateUIContext", Heap)
              /\ UNCHANGED constructed
    /\ UNCHANGED <<jobs, thread_pc, ui_pc, frames, base_join_now,
                   appctx_join_now, quit_clicked, cerr>>

\* main, line 209: make_shared<ApplicationContext>(gc, ui).  The base class
\* initialises join_now to false, the members state and render are
\* constructed, the derived join_now is value-initialised, and the
\* constructor body stores the shared_ptr to the UI context in ui.
CreateApplicationContext ==
    /\ main_pc = "CreateApplicationContext"
    /\ \E allocated \in BOOLEAN :
         IF allocated
         THEN /\ LET h1 == ConstructContext(Heap, "StateContext")
                     h2 == ConstructContext(h1, "RenderContext")
                 IN  SetHeap([h2 EXCEPT
                        !.ctx["ApplicationContext"] = "alive",
                        !.refs["ApplicationContext"] = 1,
                        !.ui = "ui_context",
                        !.refs["UIContext"] = @ + 1])
              /\ base_join_now' = FALSE
              /\ appctx_join_now' = FALSE
              /\ constructed' = constructed \cup {"app_context"}
              /\ main_pc' = "jobs"
              /\ UNCHANGED <<unwind, thrown>>
         ELSE /\ Throw("CreateApplicationContext", Heap)
              /\ UNCHANGED <<constructed, base_join_now, appctx_join_now>>
    /\ UNCHANGED <<jobs, thread_pc, ui_pc, frames, quit_clicked, cerr>>

\* A default-constructed std::thread: it runs nothing and is not joinable.
NoThread == [tid |-> 0, joinable |-> FALSE]

\* main, line 211: jobs(2) holds two default-constructed threads.
ConstructJobs ==
    /\ main_pc = "jobs"
    /\ jobs' = <<NoThread, NoThread>>
    /\ constructed' = constructed \cup {"jobs"}
    /\ main_pc' = "emplace_back_StateEngine"
    /\ UNCHANGED <<unwind, thread_pc, ui_pc, frames, base_join_now,
                   appctx_join_now, ui, ctx, m_, news, deletes, refs,
                   quit_clicked, thrown, cerr>>

\* main, lines 212 and 213: a thread is started on a closure that holds a
\* copy of app_context and is appended to jobs.  When the thread cannot be
\* started the std::thread constructor throws and the closure is destroyed
\* with its copy.
Launch(t, here, next) ==
    /\ main_pc = here
    /\ \E started \in BOOLEAN :
         IF started
         THEN /\ SetHeap(AcquireApp(Heap))
              /\ jobs' = Append(jobs, [tid |-> t, joinable |-> TRUE])
              /\ thread_pc' = [thread_pc EXCEPT ![t] = "closure"]
              /\ main_pc' = next
              /\ UNCHANGED <<unwind, thrown>>
         ELSE /\ Throw(here, Heap)
              /\ UNCHANGED <<jobs, thread_pc>>
    /\ UNCHANGED <<constructed, ui_pc, frames, base_join_now,
                   appctx_join_now, quit_clicked, cerr>>

LaunchStateEngine ==
    Launch(1, "emplace_back_StateEngine", "emplace_back_RenderEngine")

LaunchRenderEngine ==
    Launch(2, "emplace_back_RenderEngine", "call_UIEngine")

\* main, line 215: UIEngine is called with a copy of app_context.
CallUIEngine ==
    /\ main_pc = "call_UIEngine"
    /\ SetHeap(AcquireApp(Heap))
    /\ ui_pc' = "test"
    /\ main_pc' = "UIEngine"
    /\ UNCHANGED <<constructed, unwind, jobs, thread_pc, frames,
                   base_join_now, appctx_join_now, quit_clicked, thrown,
                   cerr>>

\* The thread's closure (lines 212, 213) calls its engine, passing a copy
\* of the captured app_context by value.
ThreadStart(t) ==
    /\ ProcessRunning
    /\ thread_pc[t] = "closure"
    /\ thread_pc' = [thread_pc EXCEPT ![t] = "engine"]
    /\ SetHeap(AcquireApp(Heap))
    /\ UNCHANGED <<main_pc, constructed, unwind, jobs, ui_pc, frames,
                   base_join_now, appctx_join_now, quit_clicked, thrown,
                   cerr>>

\* The body {} of StateEngine and of RenderEngine: it returns at once, and
\* the by-value parameter is destroyed.
EngineBody(t) ==
    /\ ProcessRunning
    /\ thread_pc[t] = "engine"
    /\ thread_pc' = [thread_pc EXCEPT ![t] = "returned"]
    /\ SetHeap(ReleaseApp(Heap))
    /\ UNCHANGED <<main_pc, constructed, unwind, jobs, ui_pc, frames,
                   base_join_now, appctx_join_now, quit_clicked, thrown,
                   cerr>>

StateEngine == EngineBody(1)

RenderEngine == EngineBody(2)

\* The thread function has returned: the closure is destroyed with its
\* copy of app_context and the thread ends.
ThreadExit(t) ==
    /\ ProcessRunning
    /\ thread_pc[t] = "returned"
    /\ thread_pc' = [thread_pc EXCEPT ![t] = "exited"]
    /\ SetHeap(ReleaseApp(Heap))
    /\ UNCHANGED <<main_pc, constructed, unwind, jobs, ui_pc, frames,
                   base_join_now, appctx_join_now, quit_clicked, thrown,
                   cerr>>

\* UIEngine, line 516: the loop condition reads join_now through a
\* shared_ptr<ApplicationContextBase>, that is the base class member.  When
\* it is true UIEngine returns, its parameter is destroyed and main goes on
\* to join the threads.
UILoopTest ==
    /\ main_pc = "UIEngine"
    /\ ui_pc = "test"
    /\ IF base_join_now
       THEN /\ ui_pc' = "returned"
            /\ main_pc' = "join"
            /\ SetHeap(ReleaseApp(Heap))
       ELSE /\ ui_pc' = "wait"
            /\ UNCHANGED <<main_pc, ui, ctx, m_, news, deletes, refs>>
    /\ UNCHANGED <<constructed, unwind, jobs, thread_pc, frames,
                   base_join_now, appctx_join_now, quit_clicked, thrown,
                   cerr>>

\* UIEngine, line 522: glfwWaitEventsTimeout returns.
UIWait ==
    /\ main_pc = "UIEngine"
    /\ ui_pc = "wait"
    /\ frames < MaxFrames
    /\ frames' = frames + 1
    /\ ui_pc' = "render"
    /\ UNCHANGED <<main_pc, constructed, unwind, jobs, thread_pc,
                   base_join_now, appctx_join_now, ui, ctx, m_, news,
                   deletes, refs, quit_clicked, thrown, cerr>>

\* A Run whose Quit button flips the flag.
RunToggle(clicked) ==
    /\ appctx_join_now' = IF clicked THEN ~appctx_join_now ELSE appctx_join_now
    /\ quit_clicked' = (quit_clicked \/ clicked)
    /\ UNCHANGED base_join_now

\* GusteauChapter1UI::Run(ApplicationContext& ac): when the Quit button
\* reports a click, ac.join_now = true.  ac is an ApplicationContext, so
\* the name join_now is the member ApplicationContext declares, not the
\* one of ApplicationContextBase.
Run(clicked) ==
    /\ appctx_join_now' = IF clicked THEN TRUE ELSE appctx_join_now
    /\ quit_clicked' = (quit_clicked \/ clicked)
    /\ UNCHANGED base_join_now

\* UIEngine, line 523: context->ui->Render(*context) forwards to
\* UIContext::Detail::Render, which returns at once when the join_now it
\* reads through ApplicationContextBase& is set and otherwise draws the
\* frame and calls Run.
Render ==
    /\ main_pc = "UIEngine"
    /\ ui_pc = "render"
    /\ IF base_join_now
       THEN UNCHANGED <<base_join_now, appctx_join_now, quit_clicked>>
       ELSE \E clicked \in BOOLEAN : Run(clicked)
    /\ ui_pc' = "update"
    /\ UNCHANGED <<main_pc, constructed, unwind, jobs, thread_pc, frames,
                   ui, ctx, m_, news, deletes, refs, thrown, cerr>>

\* An exception leaves Render (an allocation fails while the frame is
\* drawn): UIEngine is left by unwinding, which destroys its parameter.
RenderThrows ==
    /\ main_pc = "UIEngine"
    /\ ui_pc = "render"
    /\ ~base_join_now
    /\ ui_pc' = "unwound"
    /\ Throw("UIEngine", ReleaseApp(Heap))
    /\ UNCHANGED <<constructed, jobs, thread_pc, frames, base_join_now,
                   appctx_join_now, quit_clicked, cerr>>

\* An Update that copies the derived flag into the base class member.
UpdatePublishesJoin ==
    /\ main_pc = "UIEngine"
    /\ ui_pc = "update"
    /\ ui_pc' = "test"
    /\ base_join_now' = appctx_join_now
    /\ UNCHANGED <<main_pc, constructed, unwind, jobs, thread_pc, frames,
                   appctx_join_now, ui, ctx, m_, news,
                   deletes, refs, quit_clicked, thrown, cerr>>

\* UIEngine, line 524: ApplicationContext::Update() {} does nothing.
Update ==
    /\ main_pc = "UIEngine"
    /\ ui_pc = "update"
    /\ ui_pc' = "test"
    /\ UNCHANGED <<main_pc, constructed, unwind, jobs, thread_pc, frames,
                   base_join_now, appctx_join_now, ui, ctx, m_, news,
                   deletes, refs, quit_clicked, thrown, cerr>>

\* std::thread is joinable from its launch until it is joined.
Joinable(j) == j.joinable

\* One step of stack unwinding: the next local of main is destroyed.  The
\* destructor of a joinable std::thread calls std::terminate.
UnwindStep ==
    /\ main_pc = "unwind"
    /\ unwind # <<>>
    /\ LET x == Head(unwind)
       IN  IF x = "jobs" /\ \E i \in 1..Len(jobs) : Joinable(jobs[i])
           THEN /\ main_pc' = "terminated"
                /\ UNCHANGED <<constructed, unwind, jobs, ui, ctx, m_, news,
                               deletes, refs>>
           ELSE /\ SetHeap(DestroyLocal(Heap, x))
                /\ jobs' = IF x = "jobs" THEN <<>> ELSE jobs
                /\ constructed' = constructed \ {x}
                /\ unwind' = Tail(unwind)
                /\ UNCHANGED main_pc
    /\ UNCHANGED <<thread_pc, ui_pc, frames, base_join_now, appctx_join_now,
                   quit_clicked, thrown, cerr>>

\* main, lines 225-229: the handler reports the exception on stderr and
\* returns 1.
Catch ==
    /\ main_pc = "unwind"
    /\ unwind = <<>>
    /\ cerr' = TRUE
    /\ main_pc' = "return1"
    /\ UNCHANGED <<constructed, unwind, jobs, thread_pc, ui_pc, frames,
                   base_join_now, appctx_join_now, ui, ctx, m_, news,
                   deletes, refs, quit_clicked, thrown>>

\* main, lines 217-219: the next joinable element of jobs is joined; join
\* blocks until that thread has ended.
JoinJobs ==
    /\ main_pc = "join"
    /\ \E i \in 1..Len(jobs) :
         /\ Joinable(jobs[i])
         /\ \A k \in 1..(i - 1) : ~Joinable(jobs[k])
         /\ thread_pc[jobs[i].tid] = "exited"
         /\ jobs' = [jobs EXCEPT ![i].joinable = FALSE]
    /\ UNCHANGED <<main_pc, constructed, unwind, thread_pc, ui_pc, frames,
                   base_join_now, appctx_join_now, ui, ctx, m_, news,
                   deletes, refs, quit_clicked, thrown, cerr>>

RECURSIVE DestroyLocals(_, _)
DestroyLocals(h, order) ==
    IF order = <<>> THEN h
    ELSE DestroyLocals(DestroyLocal(h, Head(order)), Tail(order))

\* main, line 223: every element of jobs has been visited; return 0
\* destroys the locals in reverse order of declaration.
Return0 ==
    /\ main_pc = "join"
    /\ \A i \in 1..Len(jobs) : ~Joinable(jobs[i])
    /\ SetHeap(DestroyLocals(Heap, UnwindOrder(constructed)))
    /\ jobs' = <<>>
    /\ constructed' = {}
    /\ main_pc' = "return0"
    /\ UNCHANGED <<unwind, thread_pc, ui_pc, frames, base_join_now,
                   appctx_join_now, quit_clicked, thrown, cerr>>

\* The steps of the program that can be taken.  JoinJobs and Return0 follow
\* the return of UIEngine, which needs the base class join_now to be true;
\* nothing sets it (see NeverLeavesUIEngine), so they are kept in NextAll.
Next ==
    \/ CreateRootGraphicsContext
    \/ CreateUIContext
    \/ CreateApplicationContext
    \/ ConstructJobs
    \/ LaunchStateEngine
    \/ LaunchRenderEngine
    \/ CallUIEngine
    \/ \E t \in Threads : ThreadStart(t)
    \/ StateEngine
    \/ RenderEngine
    \/ \E t \in Threads : ThreadExit(t)
    \/ UILoopTest
    \/ UIWait
    \/ Render
    \/ RenderThrows
    \/ Update
    \/ UnwindStep
    \/ Catch

Spec == Init /\ [][Next]_vars

\* The whole of main, with the join loop and return 0.
NextAll == Next \/ JoinJobs \/ Return0

SpecAll == Init /\ [][NextAll]_vars

\* Under SpecAll: main never gets past the call of UIEngine normally.
NeverLeavesUIEngine == main_pc \notin {"join", "return0"}

(***************************************************************************)
(* The claims.                                                             *)
(***************************************************************************)

\* C1: once the Quit button has reported a click inside Run, the join_now
\* that UIEngine's loop condition and Detail::Render read through
\* ApplicationContextBase is true.
C1_QuitSetsBaseJoinNow == quit_clicked => base_join_now

\* C2: a thread launched by main leaves its engine only once join_now has
\* been set on the application context (either member will do).
C2_EnginesRunUntilJoinNow ==
    \A t \in Threads :
        thread_pc[t] \in {"returned", "exited"}
            => (base_join_now \/ appctx_join_now)

\* C3: join_now is monotonic: both members are false when the application
\* context is created, every write sets the member to true, and a member
\* that is true stays true in every step of every engine, of Update and of
\* Render.
C3_JoinNowMonotonic ==
    [][/\ (ctx["ApplicationContext"] = "none"
             /\ ctx'["ApplicationContext"] = "alive")
            => (~base_join_now' /\ ~appctx_join_now')
       /\ (base_join_now' # base_join_now) => base_join_now'
       /\ (appctx_join_now' # appctx_join_now) => appctx_join_now'
       /\ base_join_now => base_join_now'
       /\ appctx_join_now => appctx_join_now']_vars

\* C3's case: the flag has been written and later frames, with their
\* Render and Update, and both engines have run after the write.
C3_Witness ==
    /\ appctx_join_now
    /\ frames >= 2
    /\ ui_pc = "test"
    /\ \A t \in Threads : thread_pc[t] = "exited"

\* C4: a step of StateEngine, of RenderEngine or of Update leaves join_now
\* (both members) and the ui pointer unchanged, and join_now changes only
\* in a step UIEngine takes inside Render.
C4_OnlyUIEngineWrites ==
    [][/\ (\/ \E t \in Threads :
                 thread_pc[t] = "engine" /\ thread_pc'[t] = "returned"
           \/ ui_pc = "update" /\ ui_pc' = "test")
            => UNCHANGED <<base_join_now, appctx_join_now, ui>>
       /\ (base_join_now' # base_join_now
             \/ appctx_join_now' # appctx_join_now)
            => (main_pc = "UIEngine" /\ ui_pc = "render")]_vars

\* C4's case: both engines have run to their end, Update has run, and the
\* UI engine has written join_now.
C4_Witness ==
    /\ \A t \in Threads : thread_pc[t] = "exited"
    /\ ui_pc = "test"
    /\ frames >= 1
    /\ appctx_join_now

\* C5: an exception thrown anywhere during main's run never ends in
\* std::terminate: main's handler gets to trap it.
C5_ExceptionTrapped == thrown # "none" => main_pc # "terminated"

\* C6, under SpecAll: when main has returned 0, UIEngine has returned and
\* every launched thread has ended and is no longer joinable.  No state
\* with main_pc = "return0" is reachable (NeverLeavesUIEngine), so this
\* holds of no state in particular.
C6_JoinedBeforeReturn0 ==
    main_pc = "return0" =>
        /\ ui_pc = "returned"
        /\ \A t \in Threads : thread_pc[t] = "exited"
        /\ \A i \in 1..Len(jobs) : ~Joinable(jobs[i])

\* An engine is running, or a thread's closure still holds its copy of
\* app_context.
EngineActive ==
    \/ ui_pc \in {"test", "wait", "render", "update"}
    \/ \E t \in Threads : thread_pc[t] \in {"closure", "engine", "returned"}

\* C7: while an engine is running or a thread's closure holds a reference
\* to the application context, the root graphics context, the UI context
\* and the application context are alive.
C7_ContextsOutliveEngines ==
    EngineActive =>
        /\ ctx["GraphicsContext"] = "alive"
        /\ ctx["UIContext"] = "alive"
        /\ ctx["ApplicationContext"] = "alive"

\* C7's case: main is unwinding its locals after an exception while a
\* thread's closure still holds its reference.
C7_Witness ==
    /\ main_pc = "unwind"
    /\ \E t \in Threads : thread_pc[t] \in {"closure", "engine", "returned"}
    /\ ctx["ApplicationContext"] = "alive"

\* C8, as amended: the constructor of a context creates its Detail, so m_
\* points to it for as long as the context is alive; one Detail is created
\* per context and the destructor deletes it exactly once.
C8_DetailEagerDeletedOnce ==
    \A c \in Contexts :
        /\ ctx[c] = "none" => (m_[c] = "null" /\ news[c] = 0 /\ deletes[c] = 0)
        /\ ctx[c] = "alive" => (m_[c] = "detail" /\ news[c] = 1 /\ deletes[c] = 0)
        /\ ctx[c] = "destroyed" => (news[c] = 1 /\ deletes[c] = 1)

\* C8's case: all four contexts were constructed and destroyed.
C8_Witness ==
    \A c \in Contexts : ctx[c] = "destroyed" /\ deletes[c] = 1

\* C8, as stated: right after its construction a context has a null m_.
C8_DetailNullAfterConstruction ==
    [][\A c \in Contexts :
          (ctx[c] = "none" /\ ctx'[c] = "alive") => m_'[c] = "null"]_vars

====
